---- MODULE Spec2Model ----
(***************************************************************************)
(* Model of the Telegram <-> MCP bridge (package tgbot_mcp).               *)
(*                                                                         *)
(* Two connection owners coexist in the package and both are modelled:     *)
(*   "service"  TelegramService        (telegram_service.py)               *)
(*   "manager"  TelegramClientManager  (telegram_client.py)                *)
(* Coroutines run on one asyncio event loop, so every action below is the  *)
(* code between two suspension points (awaits that really wait: the lock   *)
(* when it is taken, connect, is_user_authorized, disconnect, lookups).    *)
(* Network failures of connect() itself are not modelled.                  *)
(***************************************************************************)
EXTENDS Integers, Sequences, FiniteSets, TLC

\* ---------------------------------------------------------------- bounds
NProcs == 2          \* concurrent coroutines using one connection owner
MaxCalls == 3        \* accessor / teardown invocations in one run
MaxEnv == 2          \* environment events (connection drop, session change)
MaxPerCall == 2      \* cap of the per-call connect / authorization counters

Procs == 1..NProcs
Clients == 1..MaxCalls           \* every call constructs at most one client
NoClient == 0                    \* None
NoProc == 0                      \* lock not held

VARIABLES
    impl,        \* which connection owner this run exercises
    authorized,  \* environment: does the stored session pass is_user_authorized
    stored,      \* self._client (NoClient = None)
    connected,   \* set of constructed clients whose is_connected() is true
    nClients,    \* number of TelegramClient objects constructed so far
    lock,        \* self._lock: the coroutine holding it, or NoProc
    waitq,       \* FIFO of coroutines suspended in self._lock.acquire()
    pc,          \* position of every coroutine
    local,       \* the client a coroutine is working on under the lock
    got,         \* the client returned by the coroutine's last accessor call
    nCalls,      \* invocations started so far
    nConnect,    \* connect() executions so far
    nAuth,       \* is_user_authorized() executions so far
    callConn,    \* connect() executions of the coroutine's current call
    callAuth,    \* is_user_authorized() executions of the current call
    envLeft,     \* environment events still allowed
    clean,       \* no teardown, drop or unauthorized session so far
    passed,      \* the clients for which is_user_authorized() answered True
    caller       \* the coroutine that made the latest call (NoProc: none yet)

connVars == <<impl, authorized, stored, connected, nClients, lock, waitq, pc,
              local, got, nCalls, nConnect, nAuth, callConn, callAuth,
              envLeft, clean, passed, caller>>

VARIABLES
    req,         \* the request being served: owner, operation and arguments
    call,        \* the operation entered for it, with its actual parameters
    rpc,         \* position of the coroutine serving the request
    issued,      \* accessor calls and remote calls issued for the request, in order
    rres,        \* what the request returned or raised
    dialogs,     \* remote side: the account's dialog list, in iteration order
    messages,    \* remote side: the chat's messages matching the query, in order
    seen,        \* how many remote dialogs the last iteration consumed
    summary,     \* the text content returned next to the structured records
    served       \* outcomes of the requests completed before this one

reqVars == <<req, call, rpc, issued, rres, dialogs, messages, seen, summary, served>>

vars == <<connVars, reqVars>>

\* ------------------------------------------------------- pure helpers

\* `self._client and self._client.is_connected()`
IsActive(s, conn) == s # NoClient /\ s \in conn

\* the second test, after the lock was obtained (service only)
DoubleCheckSkipped(s, conn) == FALSE
DoubleCheck(s, conn) == IsActive(s, conn)

\* what the accessor does when is_user_authorized() answered False
AfterAuthFailRetry(i) == "connecting"
AfterAuthFail(i) == IF i = "service" THEN "disconnecting" ELSE "raised"

\* `await client.disconnect()` on the client that failed the check
DisconnectLeavesOpen(conn, c) == conn
Disconnected(conn, c) == conn \ {c}

\* teardown: what self._client is once stop() / close() is through
AfterStopKeeps(i, s) == s
AfterStop(i, s) == IF i = "service" THEN NoClient ELSE s

\* teardown: `if self._client and self._client.is_connected()`
TeardownMustDisconnect(s, conn) == IsActive(s, conn)

\* asyncio.Lock.release(): the lock goes to the longest waiting coroutine
LockAfterRelease(q) == IF q = <<>> THEN NoProc ELSE Head(q)
QueueAfterRelease(q) == IF q = <<>> THEN q ELSE Tail(q)

CanCall(p) == pc[p] \in {"idle", "returned", "raised", "tdone"} /\ nCalls < MaxCalls

ConnInit ==
    /\ impl \in {"service", "manager"}
    /\ authorized \in BOOLEAN
    /\ stored = NoClient
    /\ connected = {}
    /\ nClients = 0
    /\ lock = NoProc
    /\ waitq = <<>>
    /\ pc = [p \in Procs |-> "idle"]
    /\ local = [p \in Procs |-> NoClient]
    /\ got = [p \in Procs |-> NoClient]
    /\ nCalls = 0
    /\ nConnect = 0
    /\ nAuth = 0
    /\ callConn = [p \in Procs |-> 0]
    /\ callAuth = [p \in Procs |-> 0]
    /\ envLeft = MaxEnv
    /\ clean = authorized
    /\ passed = {}
    /\ caller = NoProc

\* ------------------------------------------- TelegramService._ensure_client

\* the body of `async with self._lock:` up to the first await
ServiceUnderLock(p) ==
    IF DoubleCheck(stored, connected)
    THEN /\ pc' = [pc EXCEPT ![p] = "returned"]
         /\ got' = [got EXCEPT ![p] = stored]
         /\ lock' = LockAfterRelease(waitq)
         /\ waitq' = QueueAfterRelease(waitq)
         /\ UNCHANGED <<nClients, local>>
    ELSE /\ nClients < MaxCalls
         /\ nClients' = nClients + 1
         /\ local' = [local EXCEPT ![p] = nClients + 1]
         /\ pc' = [pc EXCEPT ![p] = "connecting"]
         /\ lock' = p
         /\ UNCHANGED <<got, waitq>>

\* get_client() / start() of the service, up to its first suspension
ServiceGetClient(p) ==
    /\ impl = "service"
    /\ CanCall(p)
    /\ nCalls' = nCalls + 1
    /\ caller' = p
    /\ callConn' = [callConn EXCEPT ![p] = 0]
    /\ callAuth' = [callAuth EXCEPT ![p] = 0]
    /\ IF IsActive(stored, connected)
       THEN /\ pc' = [pc EXCEPT ![p] = "returned"]
            /\ got' = [got EXCEPT ![p] = stored]
            /\ UNCHANGED <<nClients, local, lock, waitq>>
       ELSE IF lock = NoProc
            THEN ServiceUnderLock(p)
            ELSE /\ waitq' = Append(waitq, p)
                 /\ pc' = [pc EXCEPT ![p] = "waitlock"]
                 /\ UNCHANGED <<nClients, local, lock, got>>
    /\ UNCHANGED <<impl, passed, authorized, stored, connected, nConnect, nAuth, envLeft, clean>>
    /\ UNCHANGED reqVars

\* the service coroutine wakes up holding the lock
ServiceResume(p) ==
    /\ impl = "service"
    /\ pc[p] = "waitlock"
    /\ lock = p
    /\ ServiceUnderLock(p)
    /\ UNCHANGED <<impl, passed, caller, authorized, stored, connected, nCalls, nConnect, nAuth,
                   callConn, callAuth, envLeft, clean>>
    /\ UNCHANGED reqVars

\* ------------------------------------------ TelegramClientManager.get_client

\* the body of `async with self._lock:` up to the first await
ManagerUnderLock(p) ==
    LET c == IF stored = NoClient THEN nClients + 1 ELSE stored IN
    /\ stored = NoClient => nClients < MaxCalls
    /\ nClients' = IF stored = NoClient THEN nClients + 1 ELSE nClients
    /\ stored' = c
    /\ local' = [local EXCEPT ![p] = c]
    /\ pc' = [pc EXCEPT ![p] = IF c \in connected THEN "authcheck" ELSE "connecting"]
    /\ lock' = p

ManagerGetClient(p) ==
    /\ impl = "manager"
    /\ CanCall(p)
    /\ nCalls' = nCalls + 1
    /\ caller' = p
    /\ callConn' = [callConn EXCEPT ![p] = 0]
    /\ callAuth' = [callAuth EXCEPT ![p] = 0]
    /\ IF lock = NoProc
       THEN ManagerUnderLock(p) /\ UNCHANGED waitq
       ELSE /\ waitq' = Append(waitq, p)
            /\ pc' = [pc EXCEPT ![p] = "waitlock"]
            /\ UNCHANGED <<nClients, stored, local, lock>>
    /\ UNCHANGED <<impl, passed, authorized, connected, got, nConnect, nAuth, envLeft, clean>>
    /\ UNCHANGED reqVars

ManagerResume(p) ==
    /\ impl = "manager"
    /\ pc[p] = "waitlock"
    /\ lock = p
    /\ ManagerUnderLock(p)
    /\ UNCHANGED <<impl, passed, caller, authorized, connected, waitq, got, nCalls, nConnect, nAuth,
                   callConn, callAuth, envLeft, clean>>
    /\ UNCHANGED reqVars

\* ------------------------------------------------ steps common to both

\* `await client.connect()` completes
ConnectDone(p) ==
    /\ pc[p] = "connecting"
    /\ callConn[p] < MaxPerCall
    /\ connected' = connected \cup {local[p]}
    /\ nConnect' = nConnect + 1
    /\ callConn' = [callConn EXCEPT ![p] = @ + 1]
    /\ pc' = [pc EXCEPT ![p] = "authcheck"]
    /\ UNCHANGED <<impl, passed, caller, authorized, stored, nClients, lock, waitq, local, got,
                   nCalls, nAuth, callAuth, envLeft, clean>>
    /\ UNCHANGED reqVars

\* `await client.is_user_authorized()` completes: with its answer, or, when
\* the connection dropped under it, with the connection error of the request
AuthDone(p) ==
    /\ pc[p] = "authcheck"
    /\ callAuth[p] < MaxPerCall
    /\ nAuth' = nAuth + 1
    /\ callAuth' = [callAuth EXCEPT ![p] = @ + 1]
    /\ IF local[p] \notin connected
       THEN /\ pc' = [pc EXCEPT ![p] = "raised"]
            /\ lock' = LockAfterRelease(waitq)
            /\ waitq' = QueueAfterRelease(waitq)
            /\ UNCHANGED <<got, stored, passed>>
       ELSE IF authorized
       THEN /\ pc' = [pc EXCEPT ![p] = "returned"]
            /\ got' = [got EXCEPT ![p] = local[p]]
            /\ stored' = local[p]
            /\ passed' = passed \cup {local[p]}
            /\ lock' = LockAfterRelease(waitq)
            /\ waitq' = QueueAfterRelease(waitq)
       ELSE /\ pc' = [pc EXCEPT ![p] = AfterAuthFail(impl)]
            /\ IF AfterAuthFail(impl) = "raised"
               THEN /\ lock' = LockAfterRelease(waitq)
                    /\ waitq' = QueueAfterRelease(waitq)
               ELSE UNCHANGED <<lock, waitq>>
            /\ UNCHANGED <<got, stored, passed>>
    /\ UNCHANGED <<impl, caller, authorized, connected, nClients, local, nCalls, nConnect,
                   callConn, envLeft, clean>>
    /\ UNCHANGED reqVars

\* service only: `await client.disconnect()` completes, then the raise
DisconnectDone(p) ==
    /\ pc[p] = "disconnecting"
    /\ connected' = Disconnected(connected, local[p])
    /\ pc' = [pc EXCEPT ![p] = "raised"]
    /\ lock' = LockAfterRelease(waitq)
    /\ waitq' = QueueAfterRelease(waitq)
    /\ UNCHANGED <<impl, passed, caller, authorized, stored, nClients, local, got, nCalls, nConnect,
                   nAuth, callConn, callAuth, envLeft, clean>>
    /\ UNCHANGED reqVars

\* do list / fetch / search / send run inside `async with self._lock`? (no)
RemoteCallLocksHeld == TRUE
RemoteCallLocks == FALSE

\* a remote call (list / fetch / search / send) on the returned client starts
RemoteStart(p) ==
    /\ pc[p] = "returned"
    /\ pc' = [pc EXCEPT ![p] = "remote"]
    /\ IF RemoteCallLocks
       THEN lock = NoProc /\ lock' = p
       ELSE UNCHANGED lock
    /\ UNCHANGED <<impl, passed, caller, authorized, stored, connected, nClients, waitq, local,
                   got, nCalls, nConnect, nAuth, callConn, callAuth, envLeft, clean>>
    /\ UNCHANGED reqVars

\* the remote call answers
RemoteDone(p) ==
    /\ pc[p] = "remote"
    /\ pc' = [pc EXCEPT ![p] = "idle"]
    /\ IF RemoteCallLocks
       THEN lock' = LockAfterRelease(waitq) /\ waitq' = QueueAfterRelease(waitq)
       ELSE UNCHANGED <<lock, waitq>>
    /\ UNCHANGED <<impl, passed, caller, authorized, stored, connected, nClients, local,
                   got, nCalls, nConnect, nAuth, callConn, callAuth, envLeft, clean>>
    /\ UNCHANGED reqVars

\* ------------------------- TelegramService.stop / TelegramClientManager.close

TeardownUnderLock(p) ==
    IF TeardownMustDisconnect(stored, connected)
    THEN /\ pc' = [pc EXCEPT ![p] = "tdisc"]
         /\ lock' = p
         /\ UNCHANGED <<stored, waitq>>
    ELSE /\ pc' = [pc EXCEPT ![p] = "tdone"]
         /\ stored' = AfterStop(impl, stored)
         /\ lock' = LockAfterRelease(waitq)
         /\ waitq' = QueueAfterRelease(waitq)

Teardown(p) ==
    /\ CanCall(p)
    /\ nCalls' = nCalls + 1
    /\ caller' = p
    /\ clean' = FALSE
    /\ IF lock = NoProc
       THEN TeardownUnderLock(p)
       ELSE /\ waitq' = Append(waitq, p)
            /\ pc' = [pc EXCEPT ![p] = "twait"]
            /\ UNCHANGED <<stored, lock>>
    /\ UNCHANGED <<impl, passed, authorized, connected, nClients, local, got, nConnect, nAuth,
                   callConn, callAuth, envLeft>>
    /\ UNCHANGED reqVars

TeardownResume(p) ==
    /\ pc[p] = "twait"
    /\ lock = p
    /\ TeardownUnderLock(p)
    /\ UNCHANGED <<impl, passed, caller, authorized, connected, nClients, local, got, nCalls, nConnect,
                   nAuth, callConn, callAuth, envLeft, clean>>
    /\ UNCHANGED reqVars

\* `await self._client.disconnect()` completes; the service then forgets the client
TeardownDisconnected(p) ==
    /\ pc[p] = "tdisc"
    /\ connected' = connected \ {stored}
    /\ stored' = AfterStop(impl, stored)
    /\ pc' = [pc EXCEPT ![p] = "tdone"]
    /\ lock' = LockAfterRelease(waitq)
    /\ waitq' = QueueAfterRelease(waitq)
    /\ UNCHANGED <<impl, passed, caller, authorized, nClients, local, got, nCalls, nConnect, nAuth,
                   callConn, callAuth, envLeft, clean>>
    /\ UNCHANGED reqVars

\* ------------------------------------------------------- environment

\* the network drops a connection: is_connected() turns false
ConnectionDrop ==
    /\ envLeft > 0
    /\ \E c \in connected : connected' = connected \ {c}
    /\ envLeft' = envLeft - 1
    /\ clean' = FALSE
    /\ UNCHANGED <<impl, passed, caller, authorized, stored, nClients, lock, waitq, pc, local, got,
                   nCalls, nConnect, nAuth, callConn, callAuth>>
    /\ UNCHANGED reqVars

\* the session is revoked, or an out-of-band login authorizes it
SessionChange ==
    /\ envLeft > 0
    /\ authorized' = ~authorized
    /\ envLeft' = envLeft - 1
    /\ clean' = FALSE
    /\ UNCHANGED <<impl, passed, caller, stored, connected, nClients, lock, waitq, pc, local, got,
                   nCalls, nConnect, nAuth, callConn, callAuth>>
    /\ UNCHANGED reqVars


\* --------------------------------------------------------------- strings
\* A string is a sequence of one-character strings.

MaxLen == 3          \* length of the free part of a chat reference

Alphabet == {"a", "B", "1", "2", "-", "@", "/", " "}
Digits == {"0", "1", "2", "3", "4", "5", "6", "7", "8", "9"}

Https == <<"h", "t", "t", "p", "s", ":", "/", "/">>
Http == <<"h", "t", "t", "p", ":", "/", "/">>
Host == <<"t", ".", "m", "e", "/">>

StringsUpTo(chars, n) == UNION {[1..k -> chars] : k \in 0..n}

\* str.lower() on one character and on a string
LowerChar(c) == CASE c = "A" -> "a" [] c = "B" -> "b" [] OTHER -> c
LowerStr(s) == [i \in 1..Len(s) |-> LowerChar(s[i])]

\* str.startswith
StartsWith(s, pre) == Len(s) >= Len(pre) /\ SubSeq(s, 1, Len(pre)) = pre

\* str.strip(): whitespace removed at both ends
RECURSIVE LStrip(_)
LStrip(s) == IF s # <<>> /\ Head(s) = " " THEN LStrip(Tail(s)) ELSE s
RECURSIVE RStrip(_)
RStrip(s) == IF s # <<>> /\ s[Len(s)] = " " THEN RStrip(SubSeq(s, 1, Len(s) - 1)) ELSE s
Strip(s) == RStrip(LStrip(s))

AllDigits(s) == s # <<>> /\ \A i \in 1..Len(s) : s[i] \in Digits

\* re.fullmatch(r"-?\d+", s)
FullMatchIntNever(s) == FALSE
FullMatchInt(s) == IF s # <<>> /\ Head(s) = "-" THEN AllDigits(Tail(s)) ELSE AllDigits(s)

DigitVal(c) ==
    CASE c = "0" -> 0 [] c = "1" -> 1 [] c = "2" -> 2 [] c = "3" -> 3 [] c = "4" -> 4
      [] c = "5" -> 5 [] c = "6" -> 6 [] c = "7" -> 7 [] c = "8" -> 8 [] c = "9" -> 9

RECURSIVE DigitsVal(_)
DigitsVal(s) == IF s = <<>> THEN 0 ELSE 10 * DigitsVal(SubSeq(s, 1, Len(s) - 1)) + DigitVal(s[Len(s)])

\* does int(s) succeed: optional sign, then digits (the "_" separators that
\* int() also accepts are not in the alphabet)
IntParsable(s) ==
    IF s # <<>> /\ Head(s) \in {"-", "+"} THEN AllDigits(Tail(s)) ELSE AllDigits(s)

\* int(s) for a string int() accepts
ParseInt(s) ==
    IF Head(s) = "-" THEN 0 - DigitsVal(Tail(s))
    ELSE IF Head(s) = "+" THEN DigitsVal(Tail(s))
    ELSE DigitsVal(s)

\* s.split("/")[-1]: what follows the last "/"
RECURSIVE LastSegment(_)
LastSegment(s) ==
    IF \E i \in 1..Len(s) : s[i] = "/"
    THEN LastSegment(Tail(s))
    ELSE s

\* the handle _resolve_dialog looks up: link prefix and leading "@" removed
CleanedKeepsSigil(ref) ==
    IF StartsWith(ref, Https) \/ StartsWith(ref, Http) THEN LastSegment(ref) ELSE ref
Cleaned(ref) ==
    LET c == IF StartsWith(ref, Https) \/ StartsWith(ref, Http) THEN LastSegment(ref) ELSE ref
    IN IF StartsWith(c, <<"@">>) THEN Tail(c) ELSE c

\* ----------------------------------------------------- requests, results

Op(o, n, s, k) == [op |-> o, num |-> n, str |-> s, ok |-> k]
GetClientOp == Op("get_client", 0, <<>>, "ok")

\* a request as it arrives: the tool name and argument bag of _call_tool, or
\* the arguments of an operation called directly
Req(o, f, t, c, q, m, hl, l, ip, ic, sr) ==
    [owner |-> o, op |-> f, tool |-> t, chat |-> c, query |-> q, message |-> m,
     hasLimit |-> hl, limit |-> l, private |-> ip, channels |-> ic, search |-> sr]
NoReq == Req("none", "none", "none", <<>>, <<>>, <<>>, FALSE, 0, FALSE, FALSE, <<>>)

\* the parameters of the operation that was entered
Call(f, c, q, m, l, ip, ic, sr) ==
    [fn |-> f, chat |-> c, query |-> q, message |-> m, limit |-> l,
     private |-> ip, channels |-> ic, search |-> sr]
NoCall == Call("none", <<>>, <<>>, <<>>, 0, FALSE, FALSE, <<>>)
Res(st, v, its) == [status |-> st, via |-> v, items |-> its]
NoRes == Res("none", "none", <<>>)

\* the text content of a tool answer: the count it announces, the preview
\* lines, and whether a closing "…" line follows them
Summary(n, ls, m) == [count |-> n, lines |-> ls, more |-> m]
NoSummary == Summary(0, <<>>, FALSE)

\* the last issued operation gets its answer
Answered(log, k) == [log EXCEPT ![Len(log)].ok = k]

ReqIdle ==
    /\ req = NoReq
    /\ call = NoCall
    /\ rpc = "none"
    /\ issued = <<>>
    /\ rres = NoRes
    /\ dialogs = <<>>
    /\ messages = <<>>
    /\ seen = 0
    /\ summary = NoSummary
    /\ served = <<>>

\* the connection every request of the serving specifications runs on:
\* started by the lifespan, connected and authorized
ConnReady(o) ==
    /\ impl = o
    /\ authorized = TRUE
    /\ stored = 1
    /\ connected = {1}
    /\ nClients = 1
    /\ lock = NoProc
    /\ waitq = <<>>
    /\ pc = [p \in Procs |-> "idle"]
    /\ local = [p \in Procs |-> NoClient]
    /\ got = [p \in Procs |-> NoClient]
    /\ nCalls = 0
    /\ nConnect = 1
    /\ nAuth = 1
    /\ callConn = [p \in Procs |-> 0]
    /\ callAuth = [p \in Procs |-> 0]
    /\ envLeft = 0
    /\ clean = TRUE
    /\ passed = {1}
    /\ caller = NoProc

\* ----------------------------------------------------------- chat resolver
\* tools._resolve_dialog ("service" owner) and
\* TelegramClientManager._resolve_chat ("manager" owner)

\* where the resolver goes when a lookup raised
NextStrategySurfaces(o, kind) == "error"
NextStrategy(o, kind) ==
    IF o = "manager" THEN "error"
    ELSE CASE kind = "id" -> "name" [] kind = "name" -> "scan" [] OTHER -> "error"

\* the entity lookup a string identifier leads to
NameLookup(s) == Op("name", 0, s, "pending")
IdLookup(n) == Op("id", n, <<>>, "pending")

\* where a request continues once its chat is resolved
AfterResolved(o) == IF o = "resolve" THEN "done" ELSE "resolved"

\* get_client(), strip, and everything up to the first entity lookup
ResolveStart ==
    /\ rpc = "resolve"
    /\ LET r == Strip(call.chat) IN
       IF req.owner = "service"
       THEN IF r = <<>>
            THEN /\ issued' = Append(issued, GetClientOp)
                 /\ rpc' = "done"
                 /\ rres' = Res("empty_chat", "none", <<>>)
            ELSE IF FullMatchInt(r)
            THEN /\ issued' = issued \o <<GetClientOp, IdLookup(ParseInt(r))>>
                 /\ rpc' = "id_lookup"
                 /\ UNCHANGED rres
            ELSE /\ issued' = issued \o <<GetClientOp, NameLookup(Cleaned(r))>>
                 /\ rpc' = "name_lookup"
                 /\ UNCHANGED rres
       ELSE IF ~StartsWith(r, <<"@">>) /\ IntParsable(r)
            THEN /\ issued' = issued \o <<GetClientOp, IdLookup(ParseInt(r))>>
                 /\ rpc' = "id_lookup"
                 /\ UNCHANGED rres
            ELSE /\ issued' = issued \o <<GetClientOp, NameLookup(r)>>
                 /\ rpc' = "name_lookup"
                 /\ UNCHANGED rres
    /\ UNCHANGED <<req, call, dialogs, messages, seen, summary, served>>
    /\ UNCHANGED connVars

\* `await client.get_entity(...)` answers: an entity, or it raises
LookupDone ==
    /\ rpc \in {"id_lookup", "name_lookup"}
    /\ \E found \in BOOLEAN :
        LET kind == issued[Len(issued)].op
            r == Strip(call.chat)
            nxt == NextStrategy(req.owner, kind)
        IN IF found
           THEN /\ issued' = Answered(issued, "ok")
                /\ rres' = Res("ok", kind, <<>>)
                /\ rpc' = AfterResolved(req.op)
           ELSE IF nxt = "name"
           THEN /\ issued' = Append(Answered(issued, "fail"), NameLookup(Cleaned(r)))
                /\ rpc' = "name_lookup"
                /\ UNCHANGED rres
           ELSE IF nxt = "scan"
           THEN /\ issued' = Append(Answered(issued, "fail"), Op("scan", 0, <<>>, "pending"))
                /\ rpc' = "scan"
                /\ UNCHANGED rres
           ELSE /\ issued' = Answered(issued, "fail")
                /\ rres' = Res("lookup_error", "none", <<>>)
                /\ rpc' = "done"
    /\ UNCHANGED <<req, call, dialogs, messages, seen, summary, served>>
    /\ UNCHANGED connVars

\* `dialog.name.lower() == lower` for some dialog of the list
TitleMatches(ds, r) == \E i \in 1..Len(ds) : LowerStr(ds[i].title) = LowerStr(r)

\* `async for dialog in client.iter_dialogs()` ran to its return or to its end
ScanDone ==
    /\ rpc = "scan"
    /\ IF TitleMatches(dialogs, Strip(call.chat))
       THEN /\ issued' = Answered(issued, "ok")
            /\ rres' = Res("ok", "scan", <<>>)
            /\ rpc' = AfterResolved(req.op)
       ELSE /\ issued' = Answered(issued, "fail")
            /\ rres' = Res("not_found", "none", <<>>)
            /\ rpc' = "done"
    /\ UNCHANGED <<req, call, dialogs, messages, seen, summary, served>>
    /\ UNCHANGED connVars

Dialog(t, k, u) == [title |-> t, kind |-> k, uname |-> u]

\* chat references: a free part, alone or behind a link prefix
RefSet ==
    LET bodies == StringsUpTo(Alphabet, MaxLen)
    IN bodies \cup {Https \o Host \o b : b \in bodies} \cup {Http \o Host \o b : b \in bodies}

\* dialog lists the title scan runs against
ResolveDialogLists ==
    { <<>>,
      <<Dialog(<<"A">>, "group", FALSE)>>,
      <<Dialog(<<"b">>, "channel", TRUE), Dialog(<<"1", "2">>, "group", FALSE)>> }

ResolveInit ==
    /\ \E o \in {"service", "manager"} :
          /\ ConnReady(o)
          /\ \E c \in RefSet :
                /\ req = Req(o, "resolve", "none", c, <<>>, <<>>, FALSE, 0, FALSE, FALSE, <<>>)
                /\ call = Call("resolve", c, <<>>, <<>>, 0, FALSE, FALSE, <<>>)
    /\ rpc = "resolve"
    /\ issued = <<>>
    /\ rres = NoRes
    /\ dialogs \in ResolveDialogLists
    /\ messages = <<>>
    /\ seen = 0
    /\ summary = NoSummary
    /\ served = <<>>

ResolveNext == ResolveStart \/ LookupDone \/ ScanDone

SpecResolve == ResolveInit /\ [][ResolveNext]_vars


\* ------------------------------------------------- limits of the program
ListGroupsMax == 500         \* _call_tool, telegram_list_groups
SearchMax == 100             \* _call_tool, telegram_search_messages
DefaultListLimit == 50
DefaultSearchLimit == 20
ListDialogsMax == 200        \* ListDialogsRequest.limit
SearchRequestMax == 500      \* SearchMessagesRequest.limit

SnippetMax == 280            \* _shorten, default limit
PreviewMax == 5              \* records previewed in the text summary

\* ---------------------------------------------------------------- bounds
MaxRequests == 2     \* requests one server run answers, one after the other
MaxDialogs == 2      \* length of the remote dialog list
MaxMsgs == 2         \* messages a remote search can return

Rep(c, n) == [i \in 1..n |-> c]

Min(a, b) == IF a <= b THEN a ELSE b
Max(a, b) == IF a >= b THEN a ELSE b

\* max(1, min(value, top))
ClampNoCap(value, top) == Max(1, value)
Clamp(value, top) == Max(1, Min(value, top))

\* ------------------------------------------------------- dialog listing

Titles == {<<"a">>, <<"B">>, <<"A", "b">>}
Kinds == {"user", "group", "supergroup", "channel"}

\* remote entities: a basic group (types.Chat) has no username
DialogSet ==
    {d \in [title : Titles, kind : Kinds, uname : BOOLEAN] : d.kind = "group" => ~d.uname}
DialogLists == UNION {[1..n -> DialogSet] : n \in 0..MaxDialogs}

\* the dialog set of the listing scenario: one user, one private group (a
\* basic group, which has no username) and one broadcast channel, in any order
ScenarioUser(u) == Dialog(<<"a">>, "user", u)
ScenarioGroup == Dialog(<<"B">>, "group", FALSE)
ScenarioChannel(u) == Dialog(<<"A", "b">>, "channel", u)
Orders(x, y, z) ==
    {<<x, y, z>>, <<x, z, y>>, <<y, x, z>>, <<y, z, x>>, <<z, x, y>>, <<z, y, x>>}
\* dialog lists long enough to exceed the preview of the text summary
LongDialogLists ==
    {[i \in 1..n |-> Dialog(Rep("a", i), "supergroup", TRUE)] :
        n \in PreviewMax..(PreviewMax + 1)}

ScenarioLists ==
    UNION {Orders(ScenarioUser(u), ScenarioGroup, ScenarioChannel(v)) :
              u \in BOOLEAN, v \in BOOLEAN}

CharCode(c) ==
    CASE c = " " -> 32 [] c = "-" -> 45 [] c = "/" -> 47 [] c = "1" -> 49 [] c = "2" -> 50
      [] c = "@" -> 64 [] c = "A" -> 65 [] c = "B" -> 66 [] c = "a" -> 97 [] c = "b" -> 98
      [] OTHER -> 128

\* Python's order on str: s < t
RECURSIVE StrLess(_, _)
StrLess(s, t) ==
    IF t = <<>> THEN FALSE
    ELSE IF s = <<>> THEN TRUE
    ELSE IF CharCode(Head(s)) # CharCode(Head(t)) THEN CharCode(Head(s)) < CharCode(Head(t))
    ELSE StrLess(Tail(s), Tail(t))

\* `sub in text`
Contains(text, sub) ==
    \E i \in 1..(Len(text) + 1) :
        i + Len(sub) - 1 <= Len(text) /\ SubSeq(text, i, i + Len(sub) - 1) = sub

\* the record one dialog is flattened to
Item(d) == [title |-> d.title, type |-> d.kind, uname |-> d.uname]

\* the key of `dialogs.sort(key=lambda item: item["title"].lower())`
SortKeyCaseSensitive(it) == it.title
SortKey(it) == LowerStr(it.title)

\* list.sort: stable, ascending by key
RECURSIVE InsertSorted(_, _)
InsertSorted(x, sorted) ==
    IF sorted = <<>> THEN <<x>>
    ELSE IF StrLess(SortKey(x), SortKey(Head(sorted)))
         THEN <<x>> \o sorted
         ELSE <<Head(sorted)>> \o InsertSorted(x, Tail(sorted))

RECURSIVE SortByTitle(_)
SortByTitle(items) ==
    IF items = <<>> THEN <<>>
    ELSE InsertSorted(items[Len(items)], SortByTitle(SubSeq(items, 1, Len(items) - 1)))

\* TelegramClientManager._should_include_dialog
ShouldIncludeAll(d, c) == TRUE
ShouldIncludeDialog(d, c) ==
    /\ ~(d.kind = "user" /\ ~c.private)
    /\ ~(d.kind \in {"channel", "supergroup"} /\ ~c.channels)

\* TelegramClientManager.list_dialogs: at most `limit` dialogs are fetched,
\* filtered by kind and by the search term, then sorted
ListDialogsResult(ds, c) ==
    LET fetched == SubSeq(ds, 1, Min(c.limit, Len(ds)))
        kept == SelectSeq(fetched, LAMBDA d :
                    /\ ShouldIncludeDialog(d, c)
                    /\ (c.search # <<>> => Contains(LowerStr(d.title), LowerStr(c.search))))
    IN SortByTitle([i \in 1..Len(kept) |-> Item(kept[i])])

\* tools.list_groups: does the loop body `continue` on this dialog
SkippedByListGroups(d, c) ==
    \/ d.kind = "user"
    \/ (d.kind = "channel" /\ ~c.channels)
    \/ d.kind \notin {"channel", "supergroup", "group"}
    \/ (~c.private /\ ~d.uname)

\* tools.list_groups: `if len(groups) >= limit: break`
BreakNever(n, limit) == FALSE
BreakAt(n, limit) == n >= limit

\* tools.list_groups: the loop over iter_dialogs() with its break at `limit`
RECURSIVE GroupsLoop(_, _, _, _)
GroupsLoop(ds, i, acc, c) ==
    IF i > Len(ds) THEN acc
    ELSE IF SkippedByListGroups(ds[i], c) THEN GroupsLoop(ds, i + 1, acc, c)
    ELSE LET acc2 == Append(acc, Item(ds[i]))
         IN IF BreakAt(Len(acc2), c.limit) THEN acc2 ELSE GroupsLoop(ds, i + 1, acc2, c)

ListGroupsResult(ds, c) == GroupsLoop(ds, 1, <<>>, c)

\* the same loop: how many dialogs it took from the iterator (n records so far)
RECURSIVE GroupsSeen(_, _, _, _)
GroupsSeen(ds, i, n, c) ==
    IF i > Len(ds) THEN Len(ds)
    ELSE IF SkippedByListGroups(ds[i], c) THEN GroupsSeen(ds, i + 1, n, c)
    ELSE IF BreakAt(n + 1, c.limit) THEN i ELSE GroupsSeen(ds, i + 1, n + 1, c)

\* ------------------------------------------------------ message records

Null == "None"
Ellipsis == "..."         \* stands for the one character U+2026
Whitespace == {" ", "\t", "\n"}

\* `" ".join(text.split())`: the words of the text, one blank between two
Collapsed(text) ==
    LET Kept(i) ==
            \/ text[i] \notin Whitespace
            \/ /\ i > 1 /\ text[i - 1] \notin Whitespace
               /\ \E j \in (i + 1)..Len(text) : text[j] \notin Whitespace
        idx == SelectSeq([i \in 1..Len(text) |-> i], Kept)
    IN [k \in 1..Len(idx) |-> IF text[idx[k]] \in Whitespace THEN " " ELSE text[idx[k]]]

\* tools._shorten
ShortenKeepsLimit(text, limit) ==
    LET cleaned == Collapsed(text)
    IN IF Len(cleaned) <= limit THEN cleaned ELSE SubSeq(cleaned, 1, limit) \o <<Ellipsis>>
Shorten(text, limit) ==
    LET cleaned == Collapsed(text)
    IN IF Len(cleaned) <= limit THEN cleaned ELSE SubSeq(cleaned, 1, limit - 1) \o <<Ellipsis>>

\* a remote message: its id, its text, and what message.get_sender() does
\* ("known": an entity, "none": None, "error": it raises)
Msg(i, t, s) == [id |-> i, text |-> t, sender |-> s]

\* the record tools.search_messages builds for one message
MessageRecord(m) ==
    [id |-> m.id, snippet |-> Shorten(m.text, SnippetMax), text |-> m.text,
     sender |-> IF m.sender = "known" THEN "name" ELSE Null]

\* TelegramClientManager._serialize_message
SerializedMessage(m) == [id |-> m.id, message |-> m.text]

\* what search_messages does when message.get_sender() raised
AfterSenderErrorRaise == "raise"
AfterSenderError == "none"

\* `await message.get_sender()` of one message, as it was answered
SenderLookup(m) == Op("get_sender", m.id, <<>>, IF m.sender = "error" THEN "fail" ELSE "ok")

\* the lines previewed in the text summary, and its closing "…" line
PreviewLenAll(n) == n
PreviewLen(n) == Min(n, PreviewMax)
GroupLine(it) == [head |-> it.title, type |-> it.type, tail |-> it.uname]
MessageLine(it) == [head |-> it.snippet, type |-> "message", tail |-> it.sender # Null]
GroupsSummary(items) ==
    Summary(Len(items), [i \in 1..PreviewLen(Len(items)) |-> GroupLine(items[i])],
            Len(items) > PreviewMax)
MessagesSummary(items) ==
    Summary(Len(items), [i \in 1..PreviewLen(Len(items)) |-> MessageLine(items[i])],
            Len(items) > PreviewMax)

\* message texts: none, blanks to collapse, and texts around the snippet limit
MsgTexts ==
    { <<>>,
      <<" ", "a", " ", "\n", "b", " ">>,
      Rep("a", SnippetMax),
      Rep("a", SnippetMax + 1),
      Rep("a", SnippetMax - 2) \o <<" ", " ", "b", "b">>,
      Rep(" ", 5) \o Rep("a", SnippetMax - 2) \o <<"\t", "\t", "b">> }
SenderKinds == {"known", "none", "error"}

\* what a remote search can answer: every short list over a few messages
\* (blanks to collapse with each sender outcome, no text, a text to truncate),
\* each text around the snippet limit alone, and uniform lists long enough to
\* exceed the preview
MsgChoices ==
    {[text |-> <<" ", "a", " ", "\n", "b", " ">>, sender |-> k] : k \in SenderKinds}
    \cup {[text |-> t, sender |-> "known"] : t \in {<<>>, Rep("a", SnippetMax + 1)}}
MsgLists ==
    {[i \in 1..Len(f) |-> Msg(i, f[i].text, f[i].sender)] :
        f \in UNION {[1..n -> MsgChoices] : n \in 0..MaxMsgs}}
    \cup {<<Msg(1, t, "known")>> : t \in MsgTexts}
    \cup {[i \in 1..n |-> Msg(i, <<"a">>, IF i = 2 THEN "error" ELSE "known")] :
            n \in PreviewMax..(PreviewMax + 1)}

\* --------------------------------------------------- request validation

\* tools.list_groups: `if limit <= 0: raise ValueError`
ListGroupsAccepts(c) == c.limit > 0

\* tools.search_messages: query and limit tests
SearchMessagesChecksLimitOnly(c) == c.limit > 0
SearchMessagesAccepts(c) == Strip(c.query) # <<>> /\ c.limit > 0

\* the pydantic request models of config.py
ListDialogsRequestValid(c) == c.limit >= 1 /\ c.limit <= ListDialogsMax
SearchMessagesRequestValid(c) ==
    Len(c.query) >= 1 /\ c.limit >= 1 /\ c.limit <= SearchRequestMax
SendMessageRequestValid(c) == Len(c.message) >= 1

ValidationError == Res("validation", "none", <<>>)

IterDialogs(n) == Op("iter_dialogs", n, <<>>, "pending")
IterMessages(n, q) == Op("iter_messages", n, q, "pending")
SendOp(m) == Op("send_message", 0, m, "pending")

\* tools.list_groups from its first line to its first await
ListGroupsEntry(c) ==
    IF ListGroupsAccepts(c)
    THEN /\ issued' = <<GetClientOp, IterDialogs(0)>>
         /\ rpc' = "listing"
         /\ UNCHANGED rres
    ELSE /\ rres' = ValidationError
         /\ rpc' = "done"
         /\ UNCHANGED issued

\* tools.search_messages from its first line to the call of _resolve_dialog
SearchMessagesEntry(c) ==
    IF SearchMessagesAccepts(c)
    THEN /\ rpc' = "resolve"
         /\ UNCHANGED <<rres, issued>>
    ELSE /\ rres' = ValidationError
         /\ rpc' = "done"
         /\ UNCHANGED issued

\* ----------------------------------------------------- request handlers

\* the tools _list_tools announces and _call_tool dispatches on
RegisteredTools == {"telegram_list_groups", "telegram_search_messages"}

\* what _call_tool calls on the service before it raises for an unknown name
UnknownToolCallsGetClient == <<GetClientOp>>
UnknownToolCalls == <<>>

\* build_server._call_tool: clamp and trim the arguments, enter the tool
CallTool ==
    /\ rpc = "start" /\ req.op = "call_tool"
    /\ IF req.tool = "telegram_list_groups"
       THEN LET c == Call("list_groups", <<>>, <<>>, <<>>,
                          Clamp(IF req.hasLimit THEN req.limit ELSE DefaultListLimit,
                                ListGroupsMax),
                          req.private, req.channels, <<>>)
            IN call' = c /\ ListGroupsEntry(c)
       ELSE IF req.tool = "telegram_search_messages"
       THEN LET c == Call("search_messages", Strip(req.chat), Strip(req.query), <<>>,
                          Clamp(IF req.hasLimit THEN req.limit ELSE DefaultSearchLimit,
                                SearchMax),
                          FALSE, FALSE, <<>>)
            IN call' = c /\ SearchMessagesEntry(c)
       ELSE /\ rres' = Res("unknown_tool", "none", <<>>)
            /\ rpc' = "done"
            /\ issued' = UnknownToolCalls
            /\ UNCHANGED call
    /\ UNCHANGED <<req, dialogs, messages, seen, summary, served>>
    /\ UNCHANGED connVars

\* tools.list_groups called with the caller's own arguments
ListGroupsCall ==
    /\ rpc = "start" /\ req.op = "list_groups"
    /\ LET c == Call("list_groups", <<>>, <<>>, <<>>, req.limit, req.private, req.channels, <<>>)
       IN call' = c /\ ListGroupsEntry(c)
    /\ UNCHANGED <<req, dialogs, messages, seen, summary, served>>
    /\ UNCHANGED connVars

\* tools.search_messages called with the caller's own arguments
SearchMessagesCall ==
    /\ rpc = "start" /\ req.op = "search_messages"
    /\ LET c == Call("search_messages", req.chat, req.query, <<>>, req.limit, FALSE, FALSE, <<>>)
       IN call' = c /\ SearchMessagesEntry(c)
    /\ UNCHANGED <<req, dialogs, messages, seen, summary, served>>
    /\ UNCHANGED connVars

\* ListDialogsRequest(...) then TelegramClientManager.list_dialogs(params)
ManagerListDialogs ==
    /\ rpc = "start" /\ req.op = "list_dialogs"
    /\ LET c == Call("list_dialogs", <<>>, <<>>, <<>>, req.limit, req.private, req.channels,
                     req.search)
       IN /\ call' = c
          /\ IF ListDialogsRequestValid(c)
             THEN /\ issued' = <<GetClientOp, IterDialogs(c.limit)>>
                  /\ rpc' = "listing"
                  /\ UNCHANGED rres
             ELSE /\ rres' = ValidationError
                  /\ rpc' = "done"
                  /\ UNCHANGED issued
    /\ UNCHANGED <<req, dialogs, messages, seen, summary, served>>
    /\ UNCHANGED connVars

\* SearchMessagesRequest(...) then TelegramClientManager.search_messages(params)
ManagerSearchMessages ==
    /\ rpc = "start" /\ req.op = "m_search_messages"
    /\ LET c == Call("m_search_messages", req.chat, req.query, <<>>, req.limit, FALSE, FALSE, <<>>)
       IN /\ call' = c
          /\ IF SearchMessagesRequestValid(c)
             THEN /\ issued' = <<GetClientOp>>
                  /\ rpc' = "resolve"
                  /\ UNCHANGED rres
             ELSE /\ rres' = ValidationError
                  /\ rpc' = "done"
                  /\ UNCHANGED issued
    /\ UNCHANGED <<req, dialogs, messages, seen, summary, served>>
    /\ UNCHANGED connVars

\* SendMessageRequest(...) then TelegramClientManager.send_message(params)
ManagerSendMessage ==
    /\ rpc = "start" /\ req.op = "m_send_message"
    /\ LET c == Call("m_send_message", req.chat, <<>>, req.message, 0, FALSE, FALSE, <<>>)
       IN /\ call' = c
          /\ IF SendMessageRequestValid(c)
             THEN /\ issued' = <<GetClientOp>>
                  /\ rpc' = "resolve"
                  /\ UNCHANGED rres
             ELSE /\ rres' = ValidationError
                  /\ rpc' = "done"
                  /\ UNCHANGED issued
    /\ UNCHANGED <<req, dialogs, messages, seen, summary, served>>
    /\ UNCHANGED connVars

\* the dialog iteration ends or is left: the list is built and returned with
\* its text summary (list_groups), or the iteration raises
ListDone ==
    /\ rpc = "listing"
    /\ \E fails \in BOOLEAN :
          IF fails
          THEN /\ issued' = Answered(issued, "fail")
               /\ rres' = Res("remote_error", "list", <<>>)
               /\ UNCHANGED <<seen, summary>>
          ELSE /\ issued' = Answered(issued, "ok")
               /\ IF call.fn = "list_groups"
                  THEN /\ rres' = Res("ok", "list", ListGroupsResult(dialogs, call))
                       /\ seen' = GroupsSeen(dialogs, 1, 0, call)
                       /\ summary' = GroupsSummary(ListGroupsResult(dialogs, call))
                  ELSE /\ rres' = Res("ok", "list", ListDialogsResult(dialogs, call))
                       /\ seen' = Min(call.limit, Len(dialogs))
                       /\ summary' = NoSummary
    /\ rpc' = "done"
    /\ UNCHANGED <<req, call, dialogs, messages, served>>
    /\ UNCHANGED connVars

\* the chat is resolved: the message iteration starts
SearchIterate ==
    /\ rpc = "resolved"
    /\ call.fn \in {"search_messages", "m_search_messages"}
    /\ issued' = IF call.fn = "search_messages"
                 THEN issued \o <<GetClientOp, IterMessages(call.limit, call.query)>>
                 ELSE Append(issued, IterMessages(call.limit, call.query))
    /\ rpc' = "searching"
    /\ UNCHANGED <<req, call, rres, dialogs, messages, seen, summary, served>>
    /\ UNCHANGED connVars

\* the message iteration ends: the remote side yields the first `limit`
\* matching messages of the chat, or the iteration raises
SearchDone ==
    /\ rpc = "searching"
    /\ \E ms \in MsgLists, fails \in BOOLEAN :
          LET got_ == SubSeq(ms, 1, Min(call.limit, Len(ms)))
              recs == [i \in 1..Len(got_) |-> MessageRecord(got_[i])]
          IN /\ messages' = ms
             /\ IF \/ fails
                   \/ /\ call.fn = "search_messages" /\ AfterSenderError = "raise"
                      /\ \E i \in 1..Len(got_) : got_[i].sender = "error"
                THEN /\ rres' = Res("remote_error", "search", <<>>)
                     /\ issued' = IF fails THEN Answered(issued, "fail")
                                  ELSE Answered(issued, "ok")
                                         \o [i \in 1..Len(got_) |-> SenderLookup(got_[i])]
                     /\ summary' = NoSummary
                ELSE IF call.fn = "search_messages"
                THEN /\ rres' = Res("ok", "search", recs)
                     /\ issued' = Answered(issued, "ok")
                                      \o [i \in 1..Len(got_) |-> SenderLookup(got_[i])]
                     /\ summary' = MessagesSummary(recs)
                ELSE /\ rres' = Res("ok", "search",
                                    [i \in 1..Len(got_) |-> SerializedMessage(got_[i])])
                     /\ issued' = Answered(issued, "ok")
                     /\ summary' = NoSummary
    /\ rpc' = "done"
    /\ UNCHANGED <<req, call, dialogs, seen, served>>
    /\ UNCHANGED connVars

\* the chat is resolved: the message is sent
SendStart ==
    /\ rpc = "resolved"
    /\ call.fn = "m_send_message"
    /\ issued' = Append(issued, SendOp(call.message))
    /\ rpc' = "sending"
    /\ UNCHANGED <<req, call, rres, dialogs, messages, seen, summary, served>>
    /\ UNCHANGED connVars

\* wait times a FloodWaitError can carry
WaitSeconds == {1, 30}

\* what send_message does when the n-th send was answered with FloodWaitError
AfterFloodWaitRetryOnce(n) == IF n = 1 THEN "retry" ELSE "raise"
AfterFloodWait(n) == "raise"

SendsIssued(log) == Len(SelectSeq(log, LAMBDA o : o.op = "send_message"))

\* the remote service answers the send: the sent message, a FloodWaitError
\* with its wait time, or another error
SendDone ==
    /\ rpc = "sending"
    /\ \/ /\ issued' = Answered(issued, "ok")
          /\ rres' = Res("ok", "send", <<[id |-> 1]>>)
          /\ rpc' = "done"
       \/ \E s \in WaitSeconds :
             LET answered == [issued EXCEPT ![Len(issued)].ok = "flood",
                                            ![Len(issued)].num = s]
             IN IF AfterFloodWait(SendsIssued(issued)) = "retry"
                THEN /\ issued' = Append(answered, SendOp(call.message))
                     /\ rpc' = "sending"
                     /\ UNCHANGED rres
                ELSE /\ issued' = answered
                     /\ rres' = Res("rate_limited", "send", <<[seconds |-> s]>>)
                     /\ rpc' = "done"
       \/ /\ issued' = Answered(issued, "fail")
          /\ rres' = Res("remote_error", "send", <<>>)
          /\ rpc' = "done"
    /\ UNCHANGED <<req, call, dialogs, messages, seen, summary, served>>
    /\ UNCHANGED connVars

\* ------------------------------------------------ requests that are served

SmallLimits == 1..MaxDialogs
DirectLimits == {0 - 1, 0} \cup SmallLimits \cup {ListGroupsMax + 1}
ToolLimits ==
    {0 - 1, 0} \cup SmallLimits \cup {SearchMax, SearchMax + 1, ListGroupsMax, ListGroupsMax + 1}
RequestLimits ==
    {0} \cup SmallLimits \cup {ListDialogsMax, ListDialogsMax + 1, SearchRequestMax,
                               SearchRequestMax + 1}
Chats == {<<>>, <<"@", "a">>, <<"1", "2">>, <<" ", "A", " ">>}
Texts == {<<>>, <<" ">>, <<"a">>}
Searches == {<<>>, <<"b">>}
ToolNames == {"telegram_list_groups", "telegram_search_messages", "telegram_get_chat"}

ListRequests ==
    {Req("service", "list_groups", "none", <<>>, <<>>, <<>>, TRUE, l, ip, ic, <<>>) :
        l \in DirectLimits, ip \in BOOLEAN, ic \in BOOLEAN}
    \cup {Req("service", "call_tool", "telegram_list_groups", <<>>, <<>>, <<>>, hl, l, ip, ic, <<>>) :
        hl \in BOOLEAN, l \in ToolLimits, ip \in BOOLEAN, ic \in BOOLEAN}
    \cup {Req("manager", "list_dialogs", "none", <<>>, <<>>, <<>>, TRUE, l, ip, ic, sr) :
        l \in RequestLimits, ip \in BOOLEAN, ic \in BOOLEAN, sr \in Searches}

OtherRequests ==
    {Req("service", "search_messages", "none", c, q, <<>>, TRUE, l, FALSE, FALSE, <<>>) :
        c \in Chats, q \in Texts, l \in DirectLimits}
    \cup {Req("service", "call_tool", t, c, q, <<>>, hl, l, FALSE, FALSE, <<>>) :
        t \in ToolNames \ {"telegram_list_groups"}, c \in Chats, q \in Texts,
        hl \in BOOLEAN, l \in ToolLimits}
    \cup {Req("manager", "m_search_messages", "none", c, q, <<>>, TRUE, l, FALSE, FALSE, <<>>) :
        c \in Chats, q \in Texts, l \in RequestLimits}
    \cup {Req("manager", "m_send_message", "none", c, <<>>, m, FALSE, 0, FALSE, FALSE, <<>>) :
        c \in Chats, m \in Texts}

\* the requests that may follow an answered one
FollowUps(o) ==
    IF o = "service"
    THEN {Req("service", "call_tool", t, <<"@", "a">>, <<"a">>, <<>>, FALSE, 0, TRUE, FALSE, <<>>) :
             t \in ToolNames}
    ELSE {Req("manager", "list_dialogs", "none", <<>>, <<>>, <<>>, TRUE, 1, FALSE, TRUE, <<>>)}

\* the server takes the next request once the previous one was answered; the
\* account's dialogs may have changed in between
NextRequest ==
    /\ rpc = "done"
    /\ Len(served) + 1 < MaxRequests
    /\ served' = Append(served, rres.status)
    /\ req' \in FollowUps(req.owner)
    /\ call' = NoCall
    /\ rpc' = "start"
    /\ issued' = <<>>
    /\ rres' = NoRes
    /\ messages' = <<>>
    /\ seen' = 0
    /\ summary' = NoSummary
    /\ dialogs' \in ResolveDialogLists
    /\ UNCHANGED connVars

\* the operations called directly are tried on every dialog list with the
\* limits it can exceed; tool calls and large limits run against the scenario
\* lists, the long lists and the three lists of the resolver
ToolsInit ==
    /\ \/ /\ req \in ListRequests
          /\ IF req.op # "call_tool" /\ req.limit \in SmallLimits
             THEN dialogs \in DialogLists \cup ScenarioLists
             ELSE dialogs \in ResolveDialogLists \cup ScenarioLists \cup LongDialogLists
       \/ /\ req \in OtherRequests
          /\ dialogs \in ResolveDialogLists
    /\ ConnReady(req.owner)
    /\ call = NoCall
    /\ rpc = "start"
    /\ issued = <<>>
    /\ rres = NoRes
    /\ messages = <<>>
    /\ seen = 0
    /\ summary = NoSummary
    /\ served = <<>>

ToolsNext ==
    \/ CallTool
    \/ ListGroupsCall
    \/ SearchMessagesCall
    \/ ManagerListDialogs
    \/ ManagerSearchMessages
    \/ ManagerSendMessage
    \/ ListDone
    \/ ResolveStart
    \/ LookupDone
    \/ ScanDone
    \/ SearchIterate
    \/ SearchDone
    \/ SendStart
    \/ SendDone
    \/ NextRequest

SpecTools == ToolsInit /\ [][ToolsNext]_vars

Init == ConnInit /\ ReqIdle

Next ==
    \/ \E p \in Procs : ServiceGetClient(p)
    \/ \E p \in Procs : ServiceResume(p)
    \/ \E p \in Procs : ManagerGetClient(p)
    \/ \E p \in Procs : ManagerResume(p)
    \/ \E p \in Procs : ConnectDone(p)
    \/ \E p \in Procs : AuthDone(p)
    \/ \E p \in Procs : DisconnectDone(p)
    \/ \E p \in Procs : RemoteStart(p)
    \/ \E p \in Procs : RemoteDone(p)
    \/ \E p \in Procs : Teardown(p)
    \/ \E p \in Procs : TeardownResume(p)
    \/ \E p \in Procs : TeardownDisconnected(p)
    \/ ConnectionDrop
    \/ SessionChange

Spec == Init /\ [][Next]_vars

\* the lock steps and the awaits made under the lock always complete; the
\* remote calls made outside the lock (RemoteDone) may hang forever
FairSpec ==
    /\ Spec
    /\ \A p \in Procs :
        /\ WF_vars(ServiceResume(p))
        /\ WF_vars(ManagerResume(p))
        /\ WF_vars(ConnectDone(p))
        /\ WF_vars(AuthDone(p))
        /\ WF_vars(DisconnectDone(p))
        /\ WF_vars(TeardownResume(p))
        /\ WF_vars(TeardownDisconnected(p))

\* ------------------------------------------------------------- claims

Holding(p) == got[p] # NoClient

\* C1 (as stated): while the session stays authorized and nothing tears the
\* connection down, any number of accessor calls construct one client, run
\* connect once and is_user_authorized once, and all receive the same client.
C1_OneConnectOneAuthCheck ==
    clean =>
        /\ nClients <= 1 /\ nConnect <= 1 /\ nAuth <= 1
        /\ \A p, q \in Procs : Holding(p) /\ Holding(q) => got[p] = got[q]
        /\ (\E p \in Procs : Holding(p)) => nClients = 1 /\ nConnect = 1 /\ nAuth = 1

\* C1 (amended): one client and one connect for both owners and the same
\* client for every caller; is_user_authorized runs once for TelegramService
\* and once in every call of TelegramClientManager.get_client.
C1_OneClientOneConnect ==
    clean =>
        /\ nClients <= 1 /\ nConnect <= 1
        /\ \A p, q \in Procs : Holding(p) /\ Holding(q) => got[p] = got[q]
        /\ (\E p \in Procs : Holding(p)) => nClients = 1 /\ nConnect = 1 /\ nAuth >= 1
        /\ impl = "service" => nAuth <= 1
        /\ impl = "manager" =>
              /\ nAuth <= nCalls
              /\ \A p \in Procs : Holding(p) /\ pc[p] \in {"returned", "remote", "idle"}
                                     => callAuth[p] = 1

C1_Witness ==
    /\ clean
    /\ \E p, q \in Procs : p # q /\ Holding(p) /\ Holding(q) /\ got[p] = got[q]
    /\ nConnect = 1
    /\ nCalls >= 2

\* C2: when the authorization check fails, the error is raised with no stored
\* and no connected client, and the call after a raise never goes straight to
\* the authorization check of the connection that failed.
C2_ClosedBeforeRaise ==
    [][\A p \in Procs :
          /\ (pc'[p] = "raised" /\ pc[p] # "raised")
                => (stored' = NoClient /\ connected' = {})
          /\ (pc[p] = "raised" => pc'[p] # "authcheck")]_vars

\* C3: one accessor call runs connect at most once and is_user_authorized at
\* most once, and a check that answers "not authorized" leads that call only
\* to its error (through the disconnect for the service), never to a retry.
C3_UnauthorizedIsTerminal ==
    [][\A p \in Procs :
          /\ callConn'[p] <= 1
          /\ callAuth'[p] <= 1
          /\ (pc[p] = "authcheck" /\ pc'[p] # "authcheck" /\ ~authorized)
                => pc'[p] \in {"disconnecting", "raised"}
          /\ (pc[p] = "disconnecting" /\ pc'[p] # "disconnecting")
                => pc'[p] = "raised"]_vars

C3_Witness ==
    \E p \in Procs : pc[p] = "raised" /\ callConn[p] = 1 /\ callAuth[p] = 1

\* C4: a teardown that has to wait for the lock always gets it and completes,
\* and every teardown completes with no client connected, whatever remote
\* calls are in flight.
C4_TeardownCompletes ==
    /\ [][\A p \in Procs : (pc'[p] = "tdone" /\ pc[p] # "tdone") => connected' = {}]_vars
    /\ \A p \in Procs :
          (pc[p] \in {"twait", "tdisc"}) ~> (pc[p] = "tdone" /\ connected = {})

C4_Witness ==
    \E p, q \in Procs :
        /\ pc[p] = "tdone" /\ pc[q] = "remote"
        /\ nConnect >= 1 /\ connected = {} /\ lock = NoProc

\* the entity lookups and dialog scans of a log, without the accessor calls
Lookups(log) == SelectSeq(log, LAMBDA e : e.op \in {"id", "name", "scan"})

\* an optional minus sign followed by decimal digits, and its value
PurelyNumeric(s) ==
    LET body == IF s # <<>> /\ s[1] = "-" THEN SubSeq(s, 2, Len(s)) ELSE s
    IN Len(body) >= 1 /\ \A i \in 1..Len(body) : body[i] \in Digits

RECURSIVE Pow10(_)
Pow10(n) == IF n = 0 THEN 1 ELSE 10 * Pow10(n - 1)

RECURSIVE Positional(_, _)
Positional(s, i) ==
    IF i > Len(s) THEN 0 ELSE DigitVal(s[i]) * Pow10(Len(s) - i) + Positional(s, i + 1)

SignedValue(s) == IF s[1] = "-" THEN 0 - Positional(s, 2) ELSE Positional(s, 1)

StrategiesFor(r) == IF PurelyNumeric(r) THEN <<"id", "name", "scan">> ELSE <<"name", "scan">>

\* C5: _resolve_dialog issues its strategies in the order id, handle, title
\* scan; every strategy but the last issued one has failed; a success is
\* returned from the last issued strategy; "not found" comes only after all
\* applicable strategies failed; no lookup failure is surfaced.
C5_FirstSuccessInOrder ==
    (req.owner = "service" /\ req.op = "resolve") =>
        LET L == Lookups(issued)
            r == Strip(req.chat)
            S == StrategiesFor(r)
        IN /\ Len(L) <= Len(S)
           /\ \A i \in 1..Len(L) : L[i].op = S[i]
           /\ \A i \in 1..(Len(L) - 1) : L[i].ok = "fail"
           /\ rres.status \in {"none", "ok", "not_found", "empty_chat"}
           /\ rres.status = "ok" =>
                 Len(L) >= 1 /\ L[Len(L)].ok = "ok" /\ rres.via = L[Len(L)].op
           /\ rres.status = "not_found" =>
                 Len(L) = Len(S) /\ \A i \in 1..Len(L) : L[i].ok = "fail"
           /\ rres.status = "empty_chat" => L = <<>>
           /\ \A i \in 1..Len(L) :
                 (L[i].op = "scan" /\ L[i].ok # "pending")
                    => (L[i].ok = "ok" <=> TitleMatches(dialogs, r))

C5_Witness ==
    /\ req.owner = "service" /\ req.op = "resolve"
    /\ rres.status = "ok" /\ rres.via = "scan"
    /\ Len(Lookups(issued)) = 3

\* C6: for a reference that is, trimmed, an optional minus sign and digits,
\* the first lookup issued is the numeric one with the value of the text
\* (both resolvers).
C6_NumericFirst ==
    (req.op = "resolve" /\ rpc # "resolve" /\ PurelyNumeric(Strip(req.chat))) =>
        LET L == Lookups(issued)
        IN /\ Len(L) >= 1
           /\ L[1].op = "id"
           /\ L[1].num = SignedValue(Strip(req.chat))

C6_Witness ==
    /\ req.op = "resolve" /\ req.chat = <<"-", "1", "2">>
    /\ Len(Lookups(issued)) >= 2
    /\ Lookups(issued)[1] = Op("id", 0 - 12, <<>>, "fail")

HandleChars == {"a", "B", "1", "2"}
IsHandle(h) == h # <<>> /\ \A i \in 1..Len(h) : h[i] \in HandleChars
AtForm(ref) == StartsWith(ref, <<"@">>) /\ IsHandle(SubSeq(ref, 2, Len(ref)))
LinkForm(ref) ==
    StartsWith(ref, Https \o Host) /\ IsHandle(SubSeq(ref, Len(Https \o Host) + 1, Len(ref)))
HandleOf(ref) ==
    IF AtForm(ref) THEN SubSeq(ref, 2, Len(ref))
    ELSE SubSeq(ref, Len(Https \o Host) + 1, Len(ref))

\* C7 (as stated): for "@h" and "https://t.me/h" the handle lookup is issued
\* with exactly h, in both resolvers.
C7_HandleNormalised ==
    (req.op = "resolve" /\ rpc # "resolve" /\ (AtForm(req.chat) \/ LinkForm(req.chat))) =>
        LET L == Lookups(issued)
        IN Len(L) >= 1 /\ L[1].op = "name" /\ L[1].str = HandleOf(req.chat)

\* C7 (amended): _resolve_dialog issues the handle lookup with exactly h for
\* "@h" and for "https://t.me/h"; TelegramClientManager._resolve_chat hands
\* the reference over as it is.
C7_HandleNormalisedByResolveDialog ==
    (req.op = "resolve" /\ rpc # "resolve" /\ (AtForm(req.chat) \/ LinkForm(req.chat))) =>
        LET L == Lookups(issued)
        IN /\ Len(L) >= 1 /\ L[1].op = "name"
           /\ req.owner = "service" => L[1].str = HandleOf(req.chat)
           /\ req.owner = "manager" => L[1].str = req.chat

C7_Witness ==
    /\ req.owner = "service" /\ req.op = "resolve"
    /\ req.chat = Https \o Host \o <<"a", "B">>
    /\ Lookups(issued) = <<Op("name", 0, <<"a", "B">>, "ok")>>

ListFns == {"list_groups", "list_dialogs"}
SearchFns == {"search_messages", "m_search_messages"}
IssuedOps(o) == {i \in 1..Len(issued) : issued[i].op = o}

\* C8: list_groups, search_messages and the list / search request models
\* reject a limit of 0 or less with a validation error; _call_tool turns a
\* limit above the maximum (500 list, 100 search) into that maximum and the
\* request is served with it.
C8_LimitRejectedOrClamped ==
    rpc # "start" =>
        /\ (call.fn \in ListFns \cup SearchFns /\ call.limit <= 0)
              => rres.status = "validation"
        /\ (req.op = "call_tool" /\ req.tool = "telegram_list_groups"
            /\ req.hasLimit /\ req.limit > ListGroupsMax)
              => /\ call.limit = ListGroupsMax
                 /\ rres.status # "validation"
                 /\ IssuedOps("iter_dialogs") # {}
        /\ (req.op = "call_tool" /\ req.tool = "telegram_search_messages"
            /\ req.hasLimit /\ req.limit > SearchMax)
              => /\ call.limit = SearchMax
                 /\ (rres.status = "validation" => Strip(req.query) = <<>>)
                 /\ \A i \in IssuedOps("iter_messages") : issued[i].num = SearchMax

C8_Witness ==
    /\ req.op = "call_tool" /\ req.tool = "telegram_search_messages"
    /\ req.hasLimit /\ req.limit = SearchMax + 1
    /\ rres.status = "ok" /\ rres.via = "search"
    /\ \E i \in IssuedOps("iter_messages") : issued[i].num = SearchMax

\* C9: a request that ends with a validation error has issued nothing (no
\* accessor call, lookup, iteration or send), and an empty message body, an
\* empty query and a non-positive limit do end with a validation error.
C9_ValidationBeforeRemote ==
    /\ rres.status = "validation" => issued = <<>>
    /\ (/\ rpc # "start"
        /\ \/ (call.fn = "m_send_message" /\ call.message = <<>>)
           \/ (call.fn \in SearchFns /\ call.query = <<>>)
           \/ (call.fn \in ListFns \cup SearchFns /\ call.limit <= 0))
          => (rres.status = "validation" /\ rpc = "done" /\ issued = <<>>)

C9_Witness ==
    /\ call.fn = "m_send_message" /\ call.message = <<>>
    /\ rres.status = "validation" /\ rpc = "done" /\ issued = <<>>

SortedByLowerTitle(items) ==
    \A i, j \in 1..Len(items) :
        i < j => ~StrLess(LowerStr(items[j].title), LowerStr(items[i].title))

TitlesContain(items, sub) ==
    \A i \in 1..Len(items) : Contains(LowerStr(items[i].title), LowerStr(sub))

NoItemOfType(items, types) == \A i \in 1..Len(items) : items[i].type \notin types

\* the items are dialogs of the list taken in the list's order
InRemoteOrder(items, ds) ==
    \E f \in [1..Len(items) -> 1..Len(ds)] :
        /\ \A i, j \in 1..Len(items) : i < j => f[i] < f[j]
        /\ \A i \in 1..Len(items) : items[i] = Item(ds[f[i]])

\* C10 (as stated): every returned dialog list, of list_dialogs and of
\* list_groups, is sorted by lowercased title and respects the flags.
C10_SortedAndFiltered ==
    (rres.status = "ok" /\ rres.via = "list") =>
        /\ SortedByLowerTitle(rres.items)
        /\ ~call.private => NoItemOfType(rres.items, {"user"})
        /\ ~call.channels => NoItemOfType(rres.items, {"channel"})
        /\ call.search # <<>> => TitlesContain(rres.items, call.search)

\* C10 (amended): list_dialogs returns a list sorted by lowercased title,
\* without users unless include_private, without channels and supergroups
\* unless include_channels, and with matching titles only; list_groups keeps
\* the remote order, never returns a user and returns no broadcast channel
\* unless include_channels.
C10_ListDialogsSortedAndFiltered ==
    (rres.status = "ok" /\ rres.via = "list") =>
        /\ call.fn = "list_dialogs" =>
              /\ SortedByLowerTitle(rres.items)
              /\ ~call.private => NoItemOfType(rres.items, {"user"})
              /\ ~call.channels => NoItemOfType(rres.items, {"channel", "supergroup"})
              /\ call.search # <<>> => TitlesContain(rres.items, call.search)
        /\ call.fn = "list_groups" =>
              /\ InRemoteOrder(rres.items, dialogs)
              /\ NoItemOfType(rres.items, {"user"})
              /\ ~call.channels => NoItemOfType(rres.items, {"channel"})

C10_Witness ==
    /\ call.fn = "list_dialogs" /\ rres.status = "ok"
    /\ Len(dialogs) = 2 /\ dialogs[1].title = <<"B">> /\ dialogs[2].title = <<"a">>
    /\ Len(rres.items) = 2 /\ rres.items[1].title = <<"a">> /\ rres.items[2].title = <<"B">>

\* the listing scenario: the whole scenario list was iterated with
\* include_private = false, include_channels = true and no search term
ScenarioListed ==
    /\ rpc = "done" /\ rres.status = "ok" /\ rres.via = "list"
    /\ dialogs \in ScenarioLists
    /\ call.limit >= Len(dialogs)
    /\ call.search = <<>>
    /\ ~call.private /\ call.channels

TheChannel(ds) == CHOOSE d \in {ds[i] : i \in 1..Len(ds)} : d.kind = "channel"

\* C11 (as stated): listing with include_private = false and
\* include_channels = true over one user, one private group and one broadcast
\* channel returns a list that holds the broadcast channel and nothing else.
C11_OnlyTheChannel ==
    ScenarioListed => rres.items = <<Item(TheChannel(dialogs))>>

\* C11 (amended): over that dialog set and with those flags,
\* TelegramClientManager.list_dialogs returns the private group and the
\* broadcast channel and never the user; tools.list_groups returns the
\* broadcast channel alone when the channel has a username and an empty list
\* when it has none.
C11_ScenarioByOperation ==
    ScenarioListed =>
        IF call.fn = "list_dialogs"
        THEN /\ Len(rres.items) = 2
             /\ {rres.items[i] : i \in 1..2} = {Item(ScenarioGroup), Item(TheChannel(dialogs))}
        ELSE rres.items = IF TheChannel(dialogs).uname
                          THEN <<Item(TheChannel(dialogs))>>
                          ELSE <<>>

C11_Witness ==
    /\ ScenarioListed
    /\ call.fn = "list_dialogs"
    /\ Len(rres.items) = 2

\* a search ran to its end and returned its records
Searched ==
    /\ rpc = "done" /\ call.fn \in SearchFns
    /\ rres.status = "ok" /\ rres.via = "search"

\* C12: a search with limit L against a chat with k <= L matching messages
\* returns exactly k records, one per message and each with an id; the snippet
\* of every record of tools.search_messages has at most 280 characters, is the
\* whitespace-collapsed text when that has at most 280 characters, and is
\* otherwise a prefix of it followed by one ellipsis character.
C12_SearchRecords ==
    Searched =>
        /\ Len(messages) <= call.limit =>
              /\ Len(rres.items) = Len(messages)
              /\ \A i \in 1..Len(rres.items) :
                    rres.items[i].id \in Nat /\ rres.items[i].id = messages[i].id
        /\ call.fn = "search_messages" =>
              \A i \in 1..Len(rres.items) :
                  LET sn == rres.items[i].snippet
                      cl == Collapsed(rres.items[i].text)
                  IN /\ Len(sn) <= SnippetMax
                     /\ \A j \in 1..Len(sn) : sn[j] \notin Whitespace \ {" "}
                     /\ Len(cl) <= SnippetMax => sn = cl
                     /\ Len(cl) > SnippetMax =>
                            \E n \in 0..Len(cl) : sn = SubSeq(cl, 1, n) \o <<Ellipsis>>

C12_Witness ==
    /\ Searched /\ call.fn = "search_messages"
    /\ Len(messages) >= 2 /\ Len(messages) <= call.limit
    /\ \E i, j \in 1..Len(rres.items) :
          /\ Len(rres.items[i].snippet) = SnippetMax
          /\ rres.items[i].snippet[SnippetMax] = Ellipsis
          /\ rres.items[j].snippet # rres.items[j].text
          /\ rres.items[j].snippet = <<"a", " ", "b">>

\* the step in which _call_tool is entered with a name no tool is registered under
UnknownToolStep ==
    rpc = "start" /\ req.op = "call_tool" /\ req.tool \notin RegisteredTools

\* C13: a tool call whose name is not registered fails with the unknown-tool
\* error, issues no call on the connection owner and leaves the connection
\* state as it was; the request that follows it finds the connection stored,
\* connected and unlocked, and no request other than such a call fails that way.
C13_UnknownToolTouchesNothing ==
    /\ [][UnknownToolStep =>
            /\ rres'.status = "unknown_tool"
            /\ rpc' = "done"
            /\ issued' = <<>>
            /\ UNCHANGED connVars]_vars
    /\ [](/\ rres.status = "unknown_tool" =>
                req.op = "call_tool" /\ req.tool \notin RegisteredTools /\ issued = <<>>
          /\ (served # <<>> /\ served[Len(served)] = "unknown_tool") =>
                /\ IsActive(stored, connected) /\ lock = NoProc
                /\ rres.status # "unknown_tool" \/ req.tool \notin RegisteredTools)

C13_Witness ==
    /\ served # <<>> /\ served[Len(served)] = "unknown_tool"
    /\ req.op = "call_tool" /\ req.tool = "telegram_search_messages"
    /\ rpc = "done" /\ rres.status = "ok" /\ rres.via = "search"
    /\ Len(rres.items) > 0

\* the sends of the request that the remote service answered with a rate limit
FloodAnswers == {i \in IssuedOps("send_message") : issued[i].ok = "flood"}

\* C14: when the remote service answers a send with a rate-limit error that
\* carries a wait of s seconds, send_message sends nothing more for that
\* request (one remote send per call) and fails with an error carrying s.
C14_RateLimitSurfacedOnce ==
    /\ Cardinality(IssuedOps("send_message")) <= 1
    /\ FloodAnswers # {} =>
          /\ rpc = "done"
          /\ rres.status = "rate_limited"
          /\ \A i \in FloodAnswers : rres.items = <<[seconds |-> issued[i].num]>>

C14_Witness ==
    /\ call.fn = "m_send_message" /\ rpc = "done"
    /\ \E i \in FloodAnswers : issued[i].num = 30
    /\ rres.status = "rate_limited"

FailedOps == {i \in 1..Len(issued) : issued[i].ok = "fail"}

\* tools.search_messages answered: one record per yielded message, a null
\* sender exactly where the sender lookup raised or found nobody, and every
\* other field as the message has it
SenderFailuresTolerated ==
    (/\ rpc = "done" /\ call.fn = "search_messages"
     /\ \E i \in IssuedOps("iter_messages") : issued[i].ok = "ok") =>
        /\ Searched
        /\ Len(rres.items) = Min(call.limit, Len(messages))
        /\ \A i \in 1..Len(rres.items) :
              /\ rres.items[i].id = messages[i].id
              /\ rres.items[i].text = messages[i].text
              /\ messages[i].sender = "error" => rres.items[i].sender = Null
              /\ messages[i].sender = "known" => rres.items[i].sender = "name"

\* C15 (as stated): a failed sender lookup leaves the search successful, with
\* one record per message, a null sender in the affected record and the other
\* records untouched; no other failed remote call of a search is swallowed.
C15_OnlySenderSwallowed ==
    /\ SenderFailuresTolerated
    /\ (rpc = "done" /\ call.fn = "search_messages" /\ rres.status = "ok") =>
          \A i \in FailedOps : issued[i].op = "get_sender"

\* C15 (amended): as above for the sender lookup; the only other failed
\* remote calls a successful search has swallowed are entity lookups of the
\* chat resolver, which fall through to the next strategy, and a failed
\* message iteration fails the search.
C15_SenderAndResolverSwallowed ==
    /\ SenderFailuresTolerated
    /\ (rpc = "done" /\ call.fn = "search_messages" /\ rres.status = "ok") =>
          \A i \in FailedOps : issued[i].op \in {"get_sender", "id", "name"}
    /\ (rpc = "done" /\ call.fn = "search_messages") =>
          \A i \in FailedOps :
              issued[i].op \in {"iter_messages", "scan"} => rres.status # "ok"

C15_Witness ==
    /\ Searched /\ call.fn = "search_messages"
    /\ Len(rres.items) >= 2
    /\ \E i, j \in 1..Len(rres.items) :
          /\ messages[i].sender = "error" /\ rres.items[i].sender = Null
          /\ rres.items[j].sender = "name"
    /\ \E i \in FailedOps : issued[i].op = "id"

\* a tool answered with records and a text summary
Summarised ==
    /\ rpc = "done" /\ rres.status = "ok"
    /\ call.fn \in {"list_groups", "search_messages"}
    /\ rres.via \in {"list", "search"}

\* C16: for a result of n records the text summary previews exactly
\* min(n, 5) records, the first ones in result order, and ends with a "…" line
\* if and only if n > 5; the count it announces and the structured output
\* cover all n records.
C16_PreviewOfFive ==
    Summarised =>
        LET n == Len(rres.items) IN
        /\ Len(summary.lines) = (IF n <= PreviewMax THEN n ELSE PreviewMax)
        /\ \A i \in 1..Len(summary.lines) :
              summary.lines[i].head = (IF call.fn = "list_groups" THEN rres.items[i].title
                                       ELSE rres.items[i].snippet)
        /\ summary.more <=> n > PreviewMax
        /\ n > 0 => summary.count = n
        /\ call.fn = "search_messages" => n = Min(call.limit, Len(messages))

C16_Witness ==
    /\ Summarised
    /\ call.fn = "search_messages"
    /\ Len(rres.items) = PreviewMax + 1
    /\ Len(summary.lines) = PreviewMax
    /\ summary.more

\* the clients a coroutine is initialising under the lock
InHand == {local[p] : p \in {q \in Procs : pc[q] \in {"connecting", "authcheck", "disconnecting"}}}

\* C17: on one TelegramService, whatever the interleaving of get_client /
\* start and stop calls, failed authorization checks and dropped connections,
\* at most one client the service created is connected at any time, and a
\* connected client is the stored one or the one being initialised under the
\* lock: a replaced client or one that failed the check is not left connected.
C17_AtMostOneConnected ==
    impl = "service" =>
        /\ Cardinality(connected) <= 1
        /\ connected \subseteq ({stored} \cup InHand)
        /\ \A p \in Procs : pc[p] = "raised" => local[p] \notin connected

C17_Witness ==
    /\ impl = "service"
    /\ nClients >= 2
    /\ connected = {nClients}
    /\ \E p \in Procs : pc[p] = "raised" /\ local[p] = 1 /\ callAuth[p] = 1
    /\ \E p \in Procs : pc[p] = "returned" /\ got[p] = nClients

\* a get_client call of p returns in this step
Returns(p) ==
    pc'[p] = "returned" /\ (pc[p] # "returned" \/ (nCalls' # nCalls /\ caller' = p))

\* a stop of p completes in this step
StopCompletes(p) ==
    pc'[p] = "tdone" /\ (pc[p] # "tdone" \/ (nCalls' # nCalls /\ caller' = p))

\* C18: in TelegramService a stored client has passed the authorization
\* check; a client returned by get_client is connected and has passed the
\* check at the moment of the return, and is the stored client or one this
\* call connected and checked itself; when stop() completes the stored client
\* is null, so the get_client after it connects and checks a fresh client.
C18_StoredClientIsAuthorized ==
    /\ [](impl = "service" => (stored # NoClient => stored \in passed))
    /\ [][impl = "service" =>
            \A p \in Procs :
                /\ Returns(p) =>
                      /\ got'[p] # NoClient
                      /\ got'[p] \in connected' /\ got'[p] \in passed'
                      /\ \/ got'[p] = stored
                         \/ /\ got'[p] \notin passed
                            /\ callConn'[p] = 1 /\ callAuth'[p] = 1
                /\ StopCompletes(p) => stored' = NoClient]_vars

C18_Witness ==
    /\ impl = "service"
    /\ \E p, q \in Procs :
          /\ pc[q] = "tdone"
          /\ pc[p] = "returned" /\ got[p] = 2 /\ stored = 2
          /\ callConn[p] = 1 /\ callAuth[p] = 1
    /\ passed = {1, 2}

\* tools.list_groups answered with its records
GroupsListed ==
    /\ rpc = "done" /\ call.fn = "list_groups"
    /\ rres.status = "ok" /\ rres.via = "list"

\* C19: for every positive limit and every remote dialog list, list_groups
\* returns at most limit records, takes no dialog from the iterator after the
\* one that gave the limit-th record (and all of them when fewer records were
\* found), and returns no record of a user, whatever the two flags are.
C19_BoundedNoUsers ==
    GroupsListed =>
        LET n == Len(rres.items) IN
        /\ call.limit > 0
        /\ n <= call.limit
        /\ seen <= Len(dialogs)
        /\ n = call.limit => (seen >= 1 /\ Item(dialogs[seen]) = rres.items[n])
        /\ n < call.limit => seen = Len(dialogs)
        /\ InRemoteOrder(rres.items, SubSeq(dialogs, 1, seen))
        /\ \A i \in 1..n : rres.items[i].type # "user"

C19_Witness ==
    /\ GroupsListed
    /\ Len(dialogs) = 3 /\ dialogs[1].kind = "user"
    /\ call.limit = 1 /\ call.private
    /\ seen = 2 /\ Len(rres.items) = 1

====
